---- MODULE Spec2Model ----
\* Refresh Token Rotation agent (simple-rtr, src/src/index.ts, the variant that
\* takes exclusive access to the store: lines 265-555).  Several agents share
\* one store; each runs mainloop and exposes setPair, forceRefresh and session.
\*
\* Time is counted in whole ticks.  A token string is modelled by what
\* jwtDecode finds in it: n >= 1 is a token whose payload says exp = n,
\* NoExp is a token whose payload has no exp, Malformed is a string jwtDecode
\* rejects, NoToken is what reading .auth/.refresh of an undefined pair gives.
EXTENDS Integers, Sequences, FiniteSets, TLC

\* ---------------------------------------------------------------- bounds
MaxTime == 6        \* the clock stops here
MaxUD == 1          \* uniqueDelay is drawn from 0..MaxUD ticks
MaxCalls == 2       \* calls of setPair and forceRefresh in one run
MaxStamp == 2       \* the latest lockedAt of a state found persisted at start

\* ------------------------------------------------------- configuration
Inst == {1, 2}      \* the agents sharing the store (first, second)
LockExpiry == 2     \* config.lockExpiry
RenewOnTtl == 1     \* config.renewOnTtl
AuthLife == 3       \* lifetime of a served access token
ShortLife == 1      \* lifetime of a short-lived access token given at login
RefreshLife == 5    \* lifetime of a refresh token

Infinity == 99
NoExp == 0
Malformed == -1
NoToken == -2
NoLock == -1        \* State without a lockedAt field

VARIABLES
    now,        \* time.now()
    store,      \* the shared State | undefined
    mutex,      \* the store's Lock: "free", "force" (held by forceRefresh), "leaked"
    loop,       \* loop[i]: the agent's `loop` flag
    pc,         \* pc[i]: where agent i's mainloop is suspended
    snap,       \* snap[i]: the `state` the suspended iteration holds
    wake,       \* wake[i]: when the pending time.wait fires
    ud,         \* ud[i]: uniqueDelay
    force,      \* the forceRefresh call in flight (its `state` and `lockedAt`)
    session,    \* session[i]: the agent's session variable
    pend,       \* pend[i]: states got by createSession calls not yet resumed
    raced,      \* agents whose refresh was in flight when setPair(pair) last ran
    thrown,     \* the refresh that wrote the persisted lockedAt has thrown
    origin,     \* what stored the persisted pair: "start", "setPair" or "refresh"
    outcome,    \* the promise of the last forceRefresh call: "none", "pending",
                \* "resolved" or "rejected"
    calls,      \* calls of setPair and forceRefresh so far
    runs        \* runs[i]: how often agent i's mainloop was started and has ended

vars == <<now, store, mutex, loop, pc, snap, wake, ud, force, session, pend, raced,
          thrown, origin, outcome, calls, runs>>

\* ------------------------------------------------------------ data model
Absent == [present |-> FALSE, auth |-> NoToken, refresh |-> NoToken, lockedAt |-> NoLock]

TokenPair(a, r) == [auth |-> a, refresh |-> r]

NoPair == TokenPair(NoToken, NoToken)

\* { pair } : a State without lockedAt
State(p) == [present |-> TRUE, auth |-> p.auth, refresh |-> p.refresh, lockedAt |-> NoLock]

\* { ...state, lockedAt }
Locked(s, t) == [s EXCEPT !.lockedAt = t]

pairOf(s) == TokenPair(s.auth, s.refresh)

\* JavaScript truthiness of state.lockedAt: undefined and 0 are falsy
Truthy(l) == l # NoLock /\ l # 0

exp(tok) == IF tok = NoExp THEN Infinity ELSE tok

\* decodeToken throws on a malformed token; reading a property of an
\* undefined pair throws a TypeError
Decodes(tok) == tok # Malformed /\ tok # NoToken

NoSession == [present |-> FALSE, val |-> NoToken, live |-> FALSE]

Idle == [active |-> FALSE, by |-> 0, lockedAt |-> NoLock]


\* a pair as the refresh endpoint or a login form hands it out at time t
Served(t) == TokenPair(t + AuthLife, t + RefreshLife)

LoginPairs(t) == {Served(t), TokenPair(t + ShortLife, t + RefreshLife)}

\* ------------------------------------------------------ store and session
\* the promise of `changed(r, true, true)` resolves on any write
Woken(p) == [j \in Inst |-> IF p[j] = "blank" THEN "iter" ELSE p[j]]

\* the subscription of createSession, for the variable agent i exposes
InnerAfter(s, old, fresh) ==
    IF ~s.live THEN s
    ELSE IF fresh.present /\ old.present
         THEN IF fresh.auth = NoToken \/ old.auth = NoToken THEN s
              ELSE IF fresh.auth = old.auth THEN s
              ELSE [s EXCEPT !.val = fresh.auth]
    ELSE IF ~fresh.present THEN [s EXCEPT !.live = FALSE]
    ELSE IF fresh.auth = NoToken THEN s
    ELSE [s EXCEPT !.val = fresh.auth]

\* the subscription that maintains `session`: its synchronous part
SessionAfter(s, old, fresh) ==
    IF old.present /\ ~fresh.present THEN NoSession
    ELSE InnerAfter(s, old, fresh)

\* createSession without `if (!state) throw`: it goes on over an absent state
PendAfterUnchecked(q, old, fresh) ==
    IF ~old.present THEN Append(q, fresh.auth) ELSE q

\* createSession called by that subscription: the state `get()` hands it
PendAfter(q, old, fresh) ==
    IF ~old.present /\ fresh.present THEN Append(q, fresh.auth) ELSE q

\* ---------------------------------------------------------- one iteration
unlockIn(t, lockedAt) == t - lockedAt + LockExpiry

renewIn(auth, t) == exp(auth) - RenewOnTtl - t

\* time.wait(d + delay, res) at time t: when res is called.  The clock is read
\* in whole ticks, so a wait of no duration ends with the current tick.
WaitUntil(t, d, delay) ==
    IF d >= Infinity - MaxTime - RenewOnTtl THEN Infinity
    ELSE IF d + delay = 0 THEN t + 1
    ELSE t + d + delay

Expired(refresh, t) == exp(refresh) - t < 0

\* newState?.lockedAt === state.lockedAt
SameLock(newState, lockedAt) == newState.present /\ newState.lockedAt = lockedAt

\* what an action of agent i leaves behind; write says whether it wrote fresh
Keep(i) ==
    [write |-> FALSE, fresh |-> store, pc |-> pc[i], snap |-> Absent, wake |-> 0,
     loop |-> loop[i], mutex |-> mutex, thrown |-> thrown, done |-> {},
     login |-> FALSE, launch |-> FALSE, ended |-> FALSE]

Apply(i, o) ==
    /\ store' = IF o.write THEN o.fresh ELSE store
    /\ session' = IF o.write
                  THEN [j \in Inst |-> SessionAfter(session[j], store, o.fresh)]
                  ELSE session
    /\ pend' = IF o.write
               THEN [j \in Inst |-> PendAfter(pend[j], store, o.fresh)]
               ELSE pend
    /\ pc' = [(IF o.write THEN Woken(pc) ELSE pc) EXCEPT ![i] = o.pc]
    /\ snap' = [snap EXCEPT ![i] = o.snap]
    /\ wake' = [wake EXCEPT ![i] = o.wake]
    /\ loop' = [loop EXCEPT ![i] = o.loop]
    /\ mutex' = o.mutex
    /\ thrown' = IF o.write THEN FALSE ELSE o.thrown
    /\ origin' = IF o.login THEN "setPair"
                 ELSE IF o.write /\ pairOf(o.fresh) # pairOf(store) THEN "refresh"
                 ELSE origin
    /\ raced' = IF o.login THEN {j \in Inst : pc[j] = "call"}
                ELSE IF o.write /\ (~o.fresh.present \/ pairOf(o.fresh) # pairOf(store))
                THEN {} ELSE raced \ o.done
    /\ runs' = [runs EXCEPT
                   ![i] = [started |-> @.started + (IF o.launch THEN 1 ELSE 0),
                           ended |-> @.ended + (IF o.ended THEN 1 ELSE 0)]]

\* the loop without `if (time.now() < state.lockedAt)`
TimeTravelUnchecked(t, lockedAt) == FALSE

\* if (state.lockedAt) { if (time.now() < state.lockedAt) ...
TimeTravel(t, lockedAt) == Truthy(lockedAt) /\ t < lockedAt

\* the error leaves the try block: loop = false
Fatal(i, released) ==
    [Keep(i) EXCEPT !.pc = "off", !.loop = FALSE, !.ended = TRUE,
                    !.mutex = IF released THEN "free" ELSE "leaked"]

\* the body of `while (loop)` from lock() to its first suspension
Decide(i, state, t) ==
    IF ~state.present THEN [Keep(i) EXCEPT !.pc = "blank"]
    ELSE IF ~Decodes(state.refresh) THEN Fatal(i, FALSE)
    ELSE IF Expired(state.refresh, t)
         THEN [Keep(i) EXCEPT !.write = TRUE, !.fresh = Absent, !.pc = "iter"]
    ELSE IF ~Decodes(state.auth) THEN Fatal(i, FALSE)
    ELSE IF TimeTravel(t, state.lockedAt)
         THEN [Fatal(i, TRUE) EXCEPT !.write = TRUE, !.fresh = Absent]
    ELSE IF Truthy(state.lockedAt) /\ 0 < unlockIn(t, state.lockedAt)
         THEN [Keep(i) EXCEPT !.pc = "lockwait", !.snap = state,
                   !.wake = WaitUntil(t, unlockIn(t, state.lockedAt), ud[i])]
    ELSE IF renewIn(state.auth, t) < 0
         THEN IF Truthy(state.lockedAt) THEN [Keep(i) EXCEPT !.pc = "iter"]
              ELSE [Keep(i) EXCEPT !.write = TRUE, !.fresh = Locked(state, t),
                        !.pc = "call", !.snap = Locked(state, t)]
    ELSE [Keep(i) EXCEPT !.pc = "sleep",
              !.wake = WaitUntil(t, renewIn(state.auth, t), ud[i])]

Frame == UNCHANGED <<now, ud, force, outcome, calls>>

Iter(i) ==
    /\ pc[i] = "iter" /\ loop[i] /\ mutex = "free"
    /\ Apply(i, Decide(i, store, now))
    /\ Frame

\* the wait for the pending request is over: lock() again, clear a stale lock
WakeLock(i) ==
    /\ pc[i] = "lockwait" /\ wake[i] <= now /\ mutex = "free"
    /\ Apply(i, IF SameLock(store, snap[i].lockedAt)
                THEN [Keep(i) EXCEPT !.write = TRUE, !.fresh = State(pairOf(snap[i])),
                          !.pc = "iter"]
                ELSE [Keep(i) EXCEPT !.pc = "iter"])
    /\ Frame

\* the wait for the access token to go stale is over
WakeSleep(i) ==
    /\ pc[i] = "sleep" /\ wake[i] <= now
    /\ Apply(i, [Keep(i) EXCEPT !.pc = "iter"])
    /\ Frame


\* ------------------------------------------- the refresh call of the loop
\* a catch block that gives the lock up: it writes { pair } back
LoopThrowUnlocks(i) ==
    /\ pc[i] = "call" /\ mutex = "free"
    /\ Apply(i, [Keep(i) EXCEPT !.write = TRUE, !.fresh = State(pairOf(snap[i])),
                     !.pc = "iter", !.done = {i}])
    /\ Frame

\* refresh() throws: the catch block logs and the loop continues
LoopThrow(i) ==
    /\ pc[i] = "call"
    /\ Apply(i, [Keep(i) EXCEPT !.pc = "iter", !.done = {i},
                     !.thrown = SameLock(store, snap[i].lockedAt)])
    /\ Frame

\* refresh() resolves to undefined: AssertionError, rethrown by the catch block
LoopUndefined(i) ==
    /\ pc[i] = "call"
    /\ Apply(i, [Fatal(i, TRUE) EXCEPT !.mutex = mutex, !.done = {i}])
    /\ Frame

\* refresh() resolves to 'invalid'
LoopInvalid(i) ==
    /\ pc[i] = "call" /\ mutex = "free"
    /\ Apply(i, [Keep(i) EXCEPT !.write = TRUE, !.fresh = Absent, !.pc = "iter",
                     !.done = {i}])
    /\ Frame

\* refresh() resolves to a pair
Settle(i, newState, lockedAt, result) ==
    IF ~SameLock(newState, lockedAt)
    THEN [Fatal(i, TRUE) EXCEPT !.write = TRUE, !.fresh = Absent, !.done = {i}]
    ELSE [Keep(i) EXCEPT !.write = TRUE, !.fresh = State(result), !.pc = "iter",
              !.done = {i}]

LoopPair(i) ==
    /\ pc[i] = "call" /\ mutex = "free"
    /\ Apply(i, Settle(i, store, snap[i].lockedAt, Served(now)))
    /\ Frame

\* "Any single instance may spontaneously exit without cleanup"; what the
\* store does with exclusive access held by an agent that exits is the
\* store's business, so an agent exits only outside forceRefresh
Halt(i) ==
    /\ pc[i] = "call" /\ \A j \in Inst : pc[j] # "halt"
    /\ ~(force.active /\ force.by = i)
    /\ Apply(i, [Keep(i) EXCEPT !.pc = "halt", !.snap = snap[i]])
    /\ Frame

\* ------------------------------------------------------ public operations
Alive(i) == pc[i] # "halt"

\* an operation of agent i that is not a step of its loop; w: it writes
Outside(i, w) ==
    [Keep(i) EXCEPT !.snap = snap[i], !.wake = wake[i],
                    !.pc = IF w THEN Woken(pc)[i] ELSE pc[i]]

\* setPair and mainloop without their tests of `loop`: every login starts a loop
setPairRelaunches(i, state) ==
    /\ Alive(i) /\ mutex = "free"
    /\ Apply(i, [Outside(i, TRUE) EXCEPT !.write = TRUE, !.fresh = state,
                     !.pc = IF state.present THEN "iter" ELSE @,
                     !.loop = state.present \/ loop[i],
                     !.launch = state.present,
                     !.login = state.present])
    /\ calls < MaxCalls /\ calls' = calls + 1
    /\ UNCHANGED <<now, ud, force, outcome>>

\* `if (!loop) mainloop()`; mainloop itself begins with `if (loop) throw`
setPair(i, state) ==
    /\ Alive(i) /\ mutex = "free"
    /\ Apply(i, [Outside(i, TRUE) EXCEPT !.write = TRUE, !.fresh = state,
                     !.pc = IF state.present /\ ~loop[i] THEN "iter" ELSE @,
                     !.loop = state.present \/ loop[i],
                     !.launch = state.present /\ ~loop[i],
                     !.login = state.present])
    /\ calls < MaxCalls /\ calls' = calls + 1
    /\ UNCHANGED <<now, ud, force, outcome>>

Login(i) == \E p \in LoginPairs(now) : setPair(i, State(p))

Logout(i) == setPair(i, Absent)


\* forceRefresh without `if (!state) throw`: it stamps and calls refresh anyway
ForceStartUnchecked(i) ==
    /\ Alive(i) /\ mutex = "free"
    /\ calls < MaxCalls /\ calls' = calls + 1
    /\ Apply(i, [Outside(i, TRUE) EXCEPT !.write = TRUE, !.fresh = Locked(store, now),
                     !.mutex = "force"])
    /\ force' = [active |-> TRUE, by |-> i, lockedAt |-> now]
    /\ outcome' = "pending"
    /\ UNCHANGED <<now, ud>>

\* forceRefresh up to `await refresh(...)`; it keeps the store's lock
ForceStart(i) ==
    /\ Alive(i) /\ mutex = "free"
    /\ calls < MaxCalls /\ calls' = calls + 1
    /\ IF ~store.present
       THEN /\ Apply(i, [Outside(i, FALSE) EXCEPT !.mutex = "leaked"])
            /\ force' = force
            /\ outcome' = "rejected"
       ELSE /\ Apply(i, [Outside(i, TRUE) EXCEPT !.write = TRUE,
                             !.fresh = Locked(store, now),
                             !.mutex = IF store.refresh = NoToken THEN "leaked"
                                       ELSE "force"])
            /\ force' = IF store.refresh = NoToken THEN Idle
                        ELSE [active |-> TRUE, by |-> i, lockedAt |-> now]
            /\ outcome' = IF store.refresh = NoToken THEN "rejected" ELSE "pending"
    /\ UNCHANGED <<now, ud>>

\* forceRefresh after `await refresh(...)`, result: what refresh resolved to
Finish(i, newState, lockedAt, result) ==
    IF result = "invalid"
    THEN [Outside(i, TRUE) EXCEPT !.write = TRUE, !.fresh = Absent, !.mutex = "free"]
    ELSE IF ~SameLock(newState, lockedAt)
    THEN [Outside(i, FALSE) EXCEPT !.mutex = "leaked"]
    ELSE [Outside(i, TRUE) EXCEPT !.write = TRUE, !.mutex = "free",
              !.fresh = State(IF result = "undefined" THEN NoPair ELSE Served(now))]

ForceResolve(r) ==
    /\ force.active
    /\ Apply(force.by, Finish(force.by, store, force.lockedAt, r))
    /\ force' = Idle
    /\ outcome' = IF r # "invalid" /\ ~SameLock(store, force.lockedAt)
                  THEN "rejected" ELSE "resolved"
    /\ UNCHANGED <<now, ud, calls>>

\* refresh() throws: forceRefresh rejects where it stands
ForceThrow ==
    /\ force.active
    /\ Apply(force.by, [Outside(force.by, FALSE) EXCEPT !.mutex = "leaked"])
    /\ force' = Idle
    /\ outcome' = "rejected"
    /\ UNCHANGED <<now, ud, calls>>

\* ------------------------------------------------------------ session view
\* createSession resumes after `await get()`, then setSession(v)
Construct(i) ==
    /\ pend[i] # <<>>
    /\ session' = [session EXCEPT ![i] =
                      IF Head(pend[i]) = NoToken THEN @
                      ELSE [present |-> TRUE, val |-> Head(pend[i]), live |-> TRUE]]
    /\ pend' = [pend EXCEPT ![i] = Tail(@)]
    /\ UNCHANGED <<now, store, mutex, loop, pc, snap, wake, ud, force, raced, thrown,
                   origin, outcome, calls, runs>>

\* ------------------------------------------------------------------ clock
\* a step that needs no timer and no answer from outside is taken at once
Urgent(i) == (pc[i] = "iter" /\ mutex = "free") \/ pend[i] # <<>>

\* a timer fires when it is due (a waiter for the store's lock can be kept)
Due(i) ==
    \/ pc[i] = "sleep" /\ wake[i] <= now
    \/ pc[i] = "lockwait" /\ wake[i] <= now /\ mutex = "free"

Tick ==
    /\ now < MaxTime
    /\ \A i \in Inst : ~Urgent(i) /\ ~Due(i)
    /\ now' = now + 1
    /\ UNCHANGED <<store, mutex, loop, pc, snap, wake, ud, force, session, pend, raced,
                   thrown, origin, outcome, calls, runs>>

\* ---------------------------------------------------------- specification
Init ==
    /\ now = 0
    /\ store \in {Absent, State(TokenPair(ShortLife, RefreshLife))}
    /\ mutex = "free"
    /\ loop = [i \in Inst |-> TRUE]
    /\ pc = [i \in Inst |-> "iter"]
    /\ snap = [i \in Inst |-> Absent]
    /\ wake = [i \in Inst |-> 0]
    /\ ud \in {u \in [Inst -> 0..MaxUD] : u[1] <= u[2]}
    /\ force = Idle
    /\ session = [i \in Inst |-> NoSession]
    /\ pend = [i \in Inst |-> IF store.present THEN <<store.auth>> ELSE <<>>]
    /\ raced = {}
    /\ thrown = FALSE
    /\ origin = "start"
    /\ outcome = "none"
    /\ calls = 0
    /\ runs = [i \in Inst |-> [started |-> 1, ended |-> 0]]

Next ==
    \/ \E i \in Inst : Iter(i)
    \/ \E i \in Inst : WakeLock(i)
    \/ \E i \in Inst : WakeSleep(i)
    \/ \E i \in Inst : LoopThrow(i)
    \/ \E i \in Inst : LoopUndefined(i)
    \/ \E i \in Inst : LoopInvalid(i)
    \/ \E i \in Inst : LoopPair(i)
    \/ \E i \in Inst : Halt(i)
    \/ \E i \in Inst : Login(i)
    \/ \E i \in Inst : Logout(i)
    \/ \E i \in Inst : ForceStart(i)
    \/ \E r \in {"pair", "invalid", "undefined"} : ForceResolve(r)
    \/ ForceThrow
    \/ \E i \in Inst : Construct(i)
    \/ Tick

Spec == Init /\ [][Next]_vars

\* The agents are constructed over whatever an earlier run left in the store:
\* any pair a login could have stored, malformed tokens included, with or
\* without a lockedAt stamp (forceRefresh stamps at any clock reading, 0
\* included).  Nothing but the loops and the session views runs afterwards.
Persisted ==
    {Locked(State(p), l) :
        p \in LoginPairs(0) \cup {TokenPair(Malformed, RefreshLife),
                                  TokenPair(ShortLife, Malformed)},
        l \in {NoLock} \cup 0..MaxStamp}

StartInit ==
    /\ now = 0
    /\ store \in Persisted
    /\ mutex = "free"
    /\ loop = [i \in Inst |-> TRUE]
    /\ pc = [i \in Inst |-> "iter"]
    /\ snap = [i \in Inst |-> Absent]
    /\ wake = [i \in Inst |-> 0]
    /\ ud \in {u \in [Inst -> 0..MaxUD] : u[1] <= u[2]}
    /\ force = Idle
    /\ session = [i \in Inst |-> NoSession]
    /\ pend = [i \in Inst |-> <<store.auth>>]
    /\ raced = {}
    /\ thrown = FALSE
    /\ origin = "start"
    /\ outcome = "none"
    /\ calls = 0
    /\ runs = [i \in Inst |-> [started |-> 1, ended |-> 0]]

StartNext ==
    \/ \E i \in Inst : Iter(i)
    \/ \E i \in Inst : WakeLock(i)
    \/ \E i \in Inst : WakeSleep(i)
    \/ \E i \in Inst : LoopThrow(i)
    \/ \E i \in Inst : LoopUndefined(i)
    \/ \E i \in Inst : LoopInvalid(i)
    \/ \E i \in Inst : LoopPair(i)
    \/ \E i \in Inst : Construct(i)
    \/ Tick

StartSpec == StartInit /\ [][StartNext]_vars


\* "something other than the RTR library accessed the state": the storage is
\* shared (localStorage or the like), and a writer outside the protocol takes
\* no lock.  It rewrites the persisted state without its lockedAt; the store
\* notifies its subscribers as for any write.
Tamper ==
    /\ store.present /\ store.lockedAt # NoLock
    /\ LET i == CHOOSE j \in Inst : TRUE
       IN Apply(i, [Outside(i, TRUE) EXCEPT !.write = TRUE,
                        !.fresh = State(pairOf(store))])
    /\ Frame

\* the loops and forceRefresh over a store that an outside writer can reach
TamperNext ==
    \/ \E i \in Inst : Iter(i)
    \/ \E i \in Inst : WakeLock(i)
    \/ \E i \in Inst : WakeSleep(i)
    \/ \E i \in Inst : LoopThrow(i)
    \/ \E i \in Inst : LoopUndefined(i)
    \/ \E i \in Inst : LoopInvalid(i)
    \/ \E i \in Inst : LoopPair(i)
    \/ \E i \in Inst : ForceStart(i)
    \/ \E r \in {"pair", "invalid", "undefined"} : ForceResolve(r)
    \/ ForceThrow
    \/ \E i \in Inst : Construct(i)
    \/ Tamper
    \/ Tick

TamperSpec == Init /\ [][TamperNext]_vars

\* a login with a pair whose access token is already due for renewal: it
\* expires at the clock reading of the login (NoExp is not such a token)
StaleLogin(i) == now >= 1 /\ setPair(i, State(TokenPair(now, now + RefreshLife)))

\* the loops of agents whose user logs in again with such pairs
ReloginNext ==
    \/ \E i \in Inst : Iter(i)
    \/ \E i \in Inst : WakeLock(i)
    \/ \E i \in Inst : WakeSleep(i)
    \/ \E i \in Inst : LoopThrow(i)
    \/ \E i \in Inst : LoopUndefined(i)
    \/ \E i \in Inst : LoopInvalid(i)
    \/ \E i \in Inst : LoopPair(i)
    \/ \E i \in Inst : StaleLogin(i)
    \/ \E i \in Inst : Construct(i)
    \/ Tick

ReloginSpec == Init /\ [][ReloginNext]_vars

\* the fairness of an event loop: due timers and resumed promises run, the
\* clock advances, and a refresh call settles one way or another
Settles(i) == LoopThrow(i) \/ LoopUndefined(i) \/ LoopInvalid(i) \/ LoopPair(i)

ForceSettles == ForceThrow \/ \E r \in {"pair", "invalid", "undefined"} : ForceResolve(r)

FairSpec ==
    /\ Spec
    /\ WF_vars(Tick)
    /\ WF_vars(ForceSettles)
    /\ \A i \in Inst :
          /\ WF_vars(Iter(i)) /\ WF_vars(WakeLock(i)) /\ WF_vars(WakeSleep(i))
          /\ WF_vars(Construct(i)) /\ WF_vars(Settles(i))

\* ------------------------------------------------------------------ claims
\* refresh calls awaited right now, by loops and by forceRefresh
InFlight == Cardinality({i \in Inst : pc[i] = "call"}) + (IF force.active THEN 1 ELSE 0)

\* nothing is left to run at this clock reading
Settled == \A i \in Inst : ~Urgent(i) /\ ~Due(i)

Running(i) == loop[i] /\ Alive(i)

\* C1: while the persisted state carries a lockedAt stamp, at most one
\* Refresh Caller invocation is in flight.
C1_NoDoubleRefresh ==
    (store.present /\ store.lockedAt # NoLock) => InFlight <= 1

\* C2: a refresh attempt of a loop that was in flight when setPair(pair) ran
\* neither deletes the state nor replaces the pair setPair stored, whatever
\* it resolves to.
C2_SetPairWins ==
    [][\A i \in raced :
          (pc[i] = "call" /\ pc'[i] \notin {"call", "halt"})
              => (store'.present /\ pairOf(store') = pairOf(store))]_vars

\* C3: once the refresh call that stamped the persisted lockedAt = L has
\* thrown and a loop is running, the lock does not outlive
\* L + lockExpiry + uniqueDelay + epsilon (epsilon: one tick).
C3_ReclaimedInTime ==
    (/\ thrown /\ store.present /\ store.lockedAt # NoLock
     /\ mutex = "free" /\ Settled
     /\ \E i \in Inst : Running(i))
        => now <= store.lockedAt + LockExpiry + MaxUD + 1

\* a stale stamp: the agent that wrote it has halted, another loop is running
StaleHalt ==
    /\ \E j \in Inst : pc[j] = "halt" /\ SameLock(store, snap[j].lockedAt)
    /\ \E i \in Inst : Running(i)
    /\ ~Expired(store.refresh, now)

\* the persisted refresh token is past its expiry and a loop is running
Gone == store.present /\ Expired(store.refresh, now) /\ \E i \in Inst : Running(i)

\* a running loop waits on a timer set beyond the end of the clock
Cut == \E i \in Inst : Running(i) /\ pc[i] \in {"lockwait", "sleep"} /\ wake[i] > MaxTime

\* C4: when an agent has halted after stamping lockedAt and another loop is
\* running while the refresh token is unexpired, the stale lock is eventually
\* cleared: the session does not stay locked forever.
C4_HaltedLockRecovered == StaleHalt ~> (~StaleHalt \/ Cut)

\* C5: whenever the persisted refresh token's expiry has passed and a loop is
\* running, the persisted state eventually becomes absent.
C5_ExpiredSessionCleared == Gone ~> (~Gone \/ Cut)

\* C6: when a loop's refresh call resolves to 'invalid' the persisted state
\* becomes absent, that loop dispatches no retry, and with the notification of
\* that write delivered every agent's session is absent.
C6_InvalidClears ==
    [][\A i \in Inst :
          LoopInvalid(i) => (/\ ~store'.present
                             /\ pc'[i] # "call"
                             /\ \A j \in Inst : ~session'[j].present)]_vars

\* C7: after a login with every agent running, at most one loop has a
\* Refresh Caller invocation in flight for the pair that was logged in.
C7_OneRefreshAfterLogin ==
    (origin = "setPair" /\ calls = 1 /\ \A i \in Inst : Alive(i))
        => Cardinality({i \in Inst : pc[i] = "call" /\ pairOf(snap[i]) = pairOf(store)}) <= 1

\* C8: with a loop running and no refresh call outstanding, a pair stored by
\* setPair is never persisted unlocked with its access token past its expiry.
C8_RenewedBeforeExpiry ==
    (/\ origin = "setPair" /\ store.present /\ store.lockedAt = NoLock
     /\ Decodes(store.auth)
     /\ mutex = "free" /\ Settled /\ InFlight = 0
     /\ \E i \in Inst : Running(i))
        => now <= exp(store.auth)

\* C9: after a setPair call, once no session construction is pending, every
\* agent's session is present iff the persisted state is present, and its
\* value is then the persisted pair.auth.
C9_SessionMatchesStore ==
    (calls > 0 /\ \A i \in Inst : pend[i] = <<>>)
        => \A i \in Inst : /\ session[i].present <=> store.present
                            /\ session[i].present => session[i].val = store.auth

\* C10: when the Refresh Caller resolves to undefined, for a loop or for
\* forceRefresh, the store is not written: pair and lockedAt stay as they
\* were while the call was in flight.
C10_UndefinedWritesNothing ==
    [][(ForceResolve("undefined") \/ \E i \in Inst : LoopUndefined(i))
          => store' = store]_vars

\* the refresh call of forceRefresh threw: forceRefresh has rejected, its
\* stamp is persisted and a loop is running
ForceFailed ==
    /\ outcome = "rejected" /\ ~force.active
    /\ store.present /\ store.lockedAt # NoLock /\ store.refresh # NoToken
    /\ \E i \in Inst : Running(i)

\* C11: after the refresh call of forceRefresh has thrown and forceRefresh has
\* rejected with its lockedAt left persisted, a running loop eventually
\* clears that lock.
C11_ForceFailureRetried == ForceFailed ~> (~ForceFailed \/ Cut)

\* C12: when the refresh call of forceRefresh resolves to 'invalid',
\* forceRefresh rejects and the persisted state is cleared.
C12_ForceInvalidThrows ==
    [][ForceResolve("invalid") => (outcome' = "rejected" /\ ~store'.present)]_vars

\* C13: forceRefresh over an absent state rejects, invokes no Refresh Caller
\* and leaves the store absent.
C13_ForceOnAbsentFails ==
    [][\A i \in Inst :
          (ForceStart(i) /\ ~store.present)
              => (outcome' = "rejected" /\ ~force'.active /\ store' = Absent)]_vars

\* forceRefresh has been called over an absent state
C13_Witness ==
    /\ outcome = "rejected" /\ ~force.active /\ ~store.present /\ mutex = "leaked"
    /\ calls > 0

\* agent i keeps the session object it has published over this step
Kept(i) == session[i].present /\ session'[i].present /\ ~Construct(i)

\* C14: the value of a session changes only when the persisted pair.auth
\* changes (never on a write that only adds or removes lockedAt), and after a
\* replacement of the pair it is the new pair.auth.
C14_SessionTracksAuth ==
    [][\A i \in Inst :
          /\ (Kept(i) /\ session'[i].val # session[i].val) => store'.auth # store.auth
          /\ (Kept(i) /\ store.present /\ store'.present
                 /\ pairOf(store') # pairOf(store))
                => session'[i].val = store'.auth]_vars

\* C15: setPair(undefined) over an absent state leaves the store absent,
\* constructs and publishes no session, and every running loop that waited
\* for a login goes through one iteration back to that wait.
C15_LogoutIdempotent ==
    [][\A i \in Inst :
          (Logout(i) /\ ~store.present)
              => /\ store' = Absent
                 /\ pend' = pend
                 /\ \A j \in Inst : session'[j].present = session[j].present
                 /\ \A j \in Inst :
                       (Running(j) /\ pc[j] = "blank")
                           => /\ pc'[j] = "iter"
                              /\ Decide(j, store', now').pc = "blank"
                              /\ ~Decide(j, store', now').write]_vars

\* setPair(undefined) has been called over the absent state the run began with
C15_Witness ==
    /\ calls = 1 /\ origin = "start" /\ outcome = "none" /\ ~store.present
    /\ \A j \in Inst : ~session[j].present /\ pend[j] = <<>> /\ pc[j] = "blank"

\* C16: in a run without setPair and forceRefresh, a loop whose refresh call
\* resolves to a pair finds the stamp it wrote still persisted: it raises no
\* 'Lock broken' error and the session is not invalidated.
C16_NoLockBroken ==
    [][\A i \in Inst :
          (calls = 0 /\ LoopPair(i))
              => (SameLock(store, snap[i].lockedAt) /\ store'.present /\ loop'[i])]_vars

\* C17: an iteration that reads a persisted state with lockedAt set, whatever
\* the stamp, neither invokes the Refresh Caller nor writes a new stamp.
C17_LockedNeverCalls ==
    [][\A i \in Inst :
          (Iter(i) /\ store.present /\ store.lockedAt # NoLock)
              => /\ pc'[i] # "call"
                 /\ store'.lockedAt \in {store.lockedAt, NoLock}]_vars

\* a step of agent i's loop inside the store's critical section
LoopStep(i) == Iter(i) \/ WakeLock(i)

\* the persisted lock is younger than lockExpiry
Young ==
    /\ store.present /\ store.lockedAt # NoLock
    /\ store.lockedAt <= now /\ now < store.lockedAt + LockExpiry

\* C18: a loop clears a lock by reclamation only at a clock reading of at
\* least lockedAt + lockExpiry + its uniqueDelay and only if the persisted
\* stamp is the one it observed, writing {pair} without lockedAt; while the
\* lock is younger than lockExpiry no loop changes the stamp or dispatches a
\* refresh.
C18_NoEarlyReclaim ==
    [][\A i \in Inst :
          /\ (WakeLock(i) /\ store' # store)
                => /\ now >= snap[i].lockedAt + LockExpiry + ud[i]
                   /\ SameLock(store, snap[i].lockedAt)
                   /\ store' = State(pairOf(store))
          /\ (LoopStep(i) /\ Young)
                => /\ pc'[i] # "call"
                   /\ ~(store'.present /\ store'.lockedAt # store.lockedAt)]_vars

\* C19: no Refresh Caller invocation is in flight while the agent that made
\* it holds the store's exclusive access.
C19_RefreshOutsideLock == ~(force.active /\ mutex = "force")

\* C20: whenever the store's exclusive access is held it is eventually
\* released, so nobody waits for it forever.
C20_LockReleased == (mutex # "free") ~> (mutex = "free")

\* a fatal error has left agent i's mainloop over this step
FatalStep(i) == loop[i] /\ ~loop'[i]

\* C21: a fatal error in one agent's loop (time travel, lock broken, contract
\* violation, malformed token) turns off that agent's loop only: the loops of
\* the other agents stay as they were, and the store's exclusive access is
\* not left taken, so that they can go on to clear a lockedAt left behind.
C21_FatalIsLocal ==
    [][\A i \in Inst :
          FatalStep(i)
              => /\ \A j \in Inst \ {i} :
                       loop'[j] = loop[j] /\ (pc'[j] = "off") = (pc[j] = "off")
                 /\ mutex' = mutex]_vars

\* C22: when the refresh call of forceRefresh resolves to a pair and the
\* persisted lockedAt is no longer the stamp forceRefresh wrote, forceRefresh
\* does what the loop does on a broken lock: it writes absent, rejects, and
\* does not persist the new pair.
C22_ForceLockBroken ==
    [][(ForceResolve("pair") /\ ~SameLock(store, force.lockedAt))
          => (~store'.present /\ outcome' = "rejected")]_vars

\* a well-formed, unexpired state whose lockedAt lies after the clock reading
Future ==
    /\ store.present /\ Decodes(store.refresh) /\ Decodes(store.auth)
    /\ ~Expired(store.refresh, now)
    /\ store.lockedAt # NoLock /\ now < store.lockedAt

Swallowed(i) ==
    /\ store' = store /\ mutex' = mutex
    /\ loop'[i] /\ pc'[i] = "iter"
    /\ \A j \in Inst \ {i} : pc'[j] = pc[j] /\ loop'[j] = loop[j]

\* the branch agent i's next iteration takes is the wait on the lock
WaitsNext(i) == Decide(i, store', now').pc = "lockwait"

C25_ReclaimKeepsPair ==
    [][\A i \in Inst :
          (WakeLock(i) /\ SameLock(store, snap[i].lockedAt))
              => /\ store'.present /\ store'.lockedAt = NoLock
                 /\ pairOf(store') = pairOf(store)]_vars

\* the control loops of agent i that are running: started and not ended
Live(i) == runs[i].started - runs[i].ended

\* C26: in every reachable state each agent has at most one control loop
\* running, and its `loop` flag, which setPair(pair) tests before it starts
\* the loop, is set exactly when one is running: a loop is started only when
\* none is running, no second one beside it.
C26_OneLoop == \A i \in Inst : Live(i) <= 1 /\ (loop[i] <=> Live(i) = 1)

\* setPair(pair) has started the loop of an agent again after a fatal error
\* had ended it
C26_Witness ==
    \E i \in Inst : runs[i].started = 2 /\ runs[i].ended = 1 /\ loop[i] /\ pc[i] # "off"

====
